---- MODULE Spec2Model ----
(***************************************************************************)
(* Stream ingestion and dispatch engine of the IRCCloud bot.               *)
(*                                                                         *)
(* One goroutine (spawned by Start) runs listenAndParseEvents and then     *)
(* the reconnect decision; the application registers handlers, sets the    *)
(* public flags, receives from Events(), calls Err() and may cancel the    *)
(* parent context; idle timers fire asynchronously.                        *)
(***************************************************************************)
EXTENDS Integers, Sequences, FiniteSets, TLC

\* ---------------------------------------------------------------- bounds
\* Capacity of eventChan.  The code allocates 100 slots (make(chan Event,
\* 100)); the model keeps the channel semantics and scales the capacity.
EventChanCap == 1
\* Lines delivered by the transport over the whole run.
MaxLines == 2
\* Stream attempts (calls of Start) over the whole run.
MaxAttempts == 2
\* Events in one oob_include response.
MaxBacklog == 1
\* Calls of RegisterMessageHandler before Start.
MaxHandlers == 1

\* ---------------------------------------------------------------- values
\* Event types seen on the wire.  "notype" stands for a record that parses
\* but whose "type" field is absent or not a string.
EventTypes == {"buffer_msg", "idle", "oob_include"}
NoType == "notype"
\* A line that json.Unmarshal rejects.
BadLine == "unparseable"
LineKinds == EventTypes \cup {NoType, BadLine}

\* Keys of internalMessageHandlers after init().
internalMessageHandlers == {"oob_include", "idle"}

\* The definitions of handleOOBInclude in the sources: the one that decodes
\* the response into a slice and sends its events on eventChan, the one that
\* passes each line of the response to handleEvent and returns its error,
\* and the one that passes each line to handleEvent and drops its result.
\* (A fourth one closes the response unread: it behaves as the others do on
\* an empty response.)
OOBHandlers == {"decode", "handleEvent", "handleEventUnchecked"}

\* Value of cur outside a loop iteration.
NoEvent ==
    [type |-> "none", conn |-> "absent", from_backlog |-> "absent",
     origin |-> "none"]

VARIABLES
    AutoReconnect,        \* public flag
    YieldInternalEvents,  \* public flag
    DropUnhandledEvents,  \* public flag
    oobHandler,           \* which handleOOBInclude the build links
    eventHandlers,        \* type -> handlers registered for it, in order
    eventChan,            \* buffered channel of events
    parentCancelled,      \* parentContext.Err() != nil
    idleContext,          \* id of the context of the current attempt (0: nil)
    idleContextTimeout,   \* id of the timer held in the field (0: nil)
    idleCancelled,        \* idleContextCancel has run for idleContext
    timers,               \* ids of timers that are armed
    active,               \* attempts whose listenAndParseEvents is running
    pc,                   \* position of the stream goroutine
    line,                 \* lr.Bytes(): kind of the line just scanned
    cur,                  \* event e of the current loop iteration
    hidx,                 \* index of the external handler to invoke next
    r,                    \* events of the backlog response still to push
    err,                  \* value returned by listenAndParseEvents
    scanned,              \* lines scanned since the bot was created
    owed,                 \* history: parseable lines scanned in this attempt
                          \*   minus events that entered dispatch
    errReturned,          \* history: values returned by Err()
    reply,                \* call of Event.Reply in progress and its outcome
    lateFired,            \* history: a timer fired after its attempt ended
    failed                \* history: a handler returned an error in this
                          \*   attempt

vars == <<AutoReconnect, YieldInternalEvents, DropUnhandledEvents,
          oobHandler, failed, eventHandlers, eventChan, parentCancelled, idleContext,
          idleContextTimeout, idleCancelled, timers, active, pc, line, cur,
          hidx, r, err, scanned, owed, errReturned, reply, lateFired>>

flags == <<AutoReconnect, YieldInternalEvents, DropUnhandledEvents,
           oobHandler>>
idle == <<idleContext, idleContextTimeout, idleCancelled, timers>>
ctxs == <<idleContext, idleContextTimeout, idleCancelled, timers, active>>
loop == <<line, cur, hidx, r, err, scanned>>
hist == <<owed, errReturned, reply, lateFired, failed>>

\* ---------------------------------------------------------------- helpers
\* i.idleContext.Err() != nil: its own cancel func ran or the parent it was
\* derived from is cancelled.
IdleDone == idleCancelled \/ parentCancelled

\* Event built at the top of the scan loop: "_conn" set, then the fields
\* of the record; "_from_backlog" is not written on this path.  The field
\* origin is not data of the program: it records where the event came from.
LiveEvent(t) ==
    [type |-> t, conn |-> "bot", from_backlog |-> "absent", origin |-> "stream"]

\* Event decoded from the backlog response: the fields of the record, then
\* "_from_backlog" = true; "_conn" is not written on this path.
BacklogEvent(t) ==
    [type |-> t, conn |-> "absent", from_backlog |-> "true", origin |-> "backlog"]

\* Event built by handleEvent from a line of the backlog response: both
\* reserved fields are written, the backlog flag as passed by the caller.
InjectedEvent(t) ==
    [type |-> t, conn |-> "bot", from_backlog |-> "true", origin |-> "backlog"]

\* Event.Conn(): type assertion on e["_conn"].
Conn(e) == IF e.conn = "bot" THEN "bot" ELSE "panic"

\* Events Reply is called with: of a type that is "buffer_msg", another
\* string or no string; "_conn" as set at the top of the scan loop, "cid"
\* and "chan" as sent by the service.
ReplyEvents ==
    [type : {"buffer_msg", "idle", NoType}, conn : {"bot"},
     cid : {"1", "2"}, chan : {"#a", "#b"}]

\* Event.Reply(message): what the call does and returns.  The error text
\* is built with a type assertion on e["type"], the receiver of Say with
\* one on e["_conn"]: both panic when the value is not of the type.  says
\* lists the calls of Say (POST /chat/say), which returns nil or an error.
Reply(e, sayFails) ==
    IF e.type # "buffer_msg"
    THEN IF e.type = NoType
         THEN [out |-> "panic", on |-> e, text |-> "none", says |-> <<>>]
         ELSE [out |-> "cannot_reply", on |-> e, text |-> e.type, says |-> <<>>]
    ELSE IF Conn(e) = "panic"
         THEN [out |-> "panic", on |-> e, text |-> "none", says |-> <<>>]
         ELSE [out |-> IF sayFails THEN "say_error" ELSE "nil", on |-> e,
               text |-> "none", says |-> <<[cid |-> e.cid, to |-> e.chan]>>]

\* Event.FromBacklog(): type assertion on e["_from_backlog"].
FromBacklog(e) == IF e.from_backlog = "absent" THEN "panic" ELSE e.from_backlog

\* Value of reply while no call of Reply is in progress.
NoReply ==
    [out |-> "none",
     on |-> [type |-> "none", conn |-> "absent", cid |-> "none", chan |-> "none"],
     text |-> "none", says |-> <<>>]

\* listenAndParseEvents of the current attempt returns in this step exactly
\* when the goroutine moves to the test that follows the call.
Returns == active' = IF pc' = "check" THEN active \ {idleContext} ELSE active

\* The state after WithContext returned.
Constructed ==
    /\ AutoReconnect = TRUE
    /\ YieldInternalEvents = FALSE
    /\ DropUnhandledEvents = FALSE
    /\ eventHandlers = [t \in EventTypes |-> <<>>]
    /\ eventChan = <<>>
    /\ parentCancelled = FALSE
    /\ idleContext = 0
    /\ idleContextTimeout = 0
    /\ idleCancelled = FALSE
    /\ timers = {}
    /\ active = {}
    /\ pc = "init"
    /\ line = "none"
    /\ cur = NoEvent
    /\ hidx = 0
    /\ r = <<>>
    /\ err = "none"
    /\ scanned = 0
    /\ owed = 0
    /\ errReturned = <<>>
    /\ reply = NoReply
    /\ lateFired = FALSE
    /\ failed = FALSE

\* The bot as built from the sources that are complete by themselves: the
\* handleOOBInclude that decodes the response and sends on eventChan.
Init == Constructed /\ oobHandler = "decode"

\* The bot as built with a handleOOBInclude that calls handleEvent.
InitHandleEvent == Constructed /\ oobHandler \in OOBHandlers \ {"decode"}

\* ------------------------------------------------------------ application
\* The application assigns the three exported fields before Start.
Configure(a, y, d) ==
    /\ pc = "init"
    /\ reply = NoReply
    /\ <<a, y, d>> # <<AutoReconnect, YieldInternalEvents, DropUnhandledEvents>>
    /\ AutoReconnect' = a
    /\ YieldInternalEvents' = y
    /\ DropUnhandledEvents' = d
    /\ UNCHANGED <<oobHandler, eventHandlers, eventChan, parentCancelled, ctxs, pc, loop,
                   hist>>

\* Handlers registered for all types together.
RegisteredCount ==
    Len(eventHandlers["buffer_msg"]) + Len(eventHandlers["idle"])
        + Len(eventHandlers["oob_include"])

\* RegisterMessageHandler(eventType, eh): eh is named by its position in
\* the slice of its type.
RegisterMessageHandler(eventType) ==
    /\ pc = "init"
    /\ reply = NoReply
    /\ RegisteredCount < MaxHandlers
    /\ eventHandlers' = [eventHandlers EXCEPT
            ![eventType] = Append(@, Len(@) + 1)]
    /\ UNCHANGED <<flags, eventChan, parentCancelled, ctxs, pc, loop, hist>>

\* The application calls Reply on an event (here before it calls Start; the
\* calls of the application follow one another).  A panic ends the process.
ReplyCall(e, sayFails) ==
    /\ pc = "init"
    /\ reply = NoReply
    /\ reply' = Reply(e, sayFails)
    /\ pc' = IF reply'.out = "panic" THEN "crashed" ELSE pc
    /\ UNCHANGED <<flags, eventHandlers, eventChan, parentCancelled, ctxs, loop,
                   owed, errReturned, lateFired,
                   failed>>

\* The call of Reply has returned to the application.
ReplyReturn ==
    /\ pc = "init"
    /\ reply # NoReply
    /\ reply' = NoReply
    /\ UNCHANGED <<flags, eventHandlers, eventChan, parentCancelled, ctxs, pc,
                   loop, owed, errReturned, lateFired,
                   failed>>

\* Body of Start up to the go statement: a context derived from the parent,
\* a timer that cancels it, both stored in the fields of the bot.
StartFields ==
    /\ idleContext' = idleContext + 1
    /\ idleContextTimeout' = idleContext + 1
    /\ timers' = timers \cup {idleContext + 1}
    /\ idleCancelled' = FALSE
    /\ active' = active \cup {idleContext + 1}

\* The application calls Start (once).
Start ==
    /\ pc = "init"
    /\ reply = NoReply
    /\ StartFields
    /\ pc' = "connect"
    /\ UNCHANGED <<flags, eventHandlers, eventChan, parentCancelled, loop, hist>>

\* The application receives one event from Events().
Receive ==
    /\ pc # "crashed"
    /\ eventChan # <<>>
    /\ eventChan' = Tail(eventChan)
    /\ UNCHANGED <<flags, eventHandlers, parentCancelled, ctxs, pc, loop, hist>>

\* The owner of the parent context cancels it.
CancelParent ==
    /\ pc # "crashed"
    /\ ~parentCancelled
    /\ parentCancelled' = TRUE
    /\ UNCHANGED <<flags, eventHandlers, eventChan, ctxs, pc, loop, hist>>

\* TimerFire for a timer whose callback reads the cancel func from the
\* field when it fires.
TimerFireField(k) ==
    /\ pc # "crashed"
    /\ k \in timers
    /\ timers' = timers \ {k}
    /\ idleCancelled' = TRUE
    /\ lateFired' = (lateFired \/ k # idleContext)
    /\ UNCHANGED <<flags, eventHandlers, eventChan, parentCancelled,
                   idleContext, idleContextTimeout, active, pc, loop, owed,
                   errReturned, reply,
                   failed>>

\* The timer created by Start number k fires and runs the cancel func it
\* was created with, that of the context created by the same Start; a
\* context no field refers to any more is not kept in the state.
TimerFire(k) ==
    /\ pc # "crashed"
    /\ k \in timers
    /\ timers' = timers \ {k}
    /\ idleCancelled' = IF k = idleContext THEN TRUE ELSE idleCancelled
    /\ lateFired' = (lateFired \/ k # idleContext)
    /\ UNCHANGED <<flags, eventHandlers, eventChan, parentCancelled,
                   idleContext, idleContextTimeout, active, pc, loop, owed,
                   errReturned, reply,
                   failed>>

\* --------------------------------------------------------- stream goroutine
\* listenAndParseEvents, the request for /chat/stream under idleContext.
Connect ==
    /\ pc = "connect"
    /\ \/ /\ IdleDone
          /\ pc' = "check"
          /\ err' = "request_canceled"
       \/ /\ ~IdleDone
          /\ \/ pc' = "scan" /\ UNCHANGED err
             \/ pc' = "check" /\ err' = "request_failed"
    /\ UNCHANGED <<flags, eventHandlers, eventChan, parentCancelled, idle, line,
                   cur, hidx, r, scanned, hist>>
    /\ Returns

\* lr.Scan() returned true: the scanner holds one line.
Scan(kind) ==
    /\ pc = "scan"
    /\ scanned < MaxLines
    /\ scanned' = scanned + 1
    /\ line' = kind
    /\ owed' = IF kind = BadLine THEN owed ELSE owed + 1
    /\ pc' = "parse"
    /\ UNCHANGED <<flags, eventHandlers, eventChan, parentCancelled, ctxs, cur,
                   hidx, r, err, errReturned, reply, lateFired,
                   failed>>

\* ScanEnd for a stream requested under the parent context: the read does
\* not see the cancellation of idleContext.
ScanEndParentCtx ==
    /\ pc = "scan"
    /\ \/ /\ parentCancelled
          /\ err' = "read_canceled"
       \/ /\ ~parentCancelled
          /\ err' \in {"nil", "read_error"}
    /\ pc' = "check"
    /\ UNCHANGED <<flags, eventHandlers, eventChan, parentCancelled, idle, line,
                   cur, hidx, r, scanned, hist>>
    /\ Returns

\* ScanEnd that reconnects in place: Start is called where the read failed
\* and the loop it was called from has not returned.
ScanEndReconnect ==
    /\ pc = "scan"
    /\ idleContext < MaxAttempts
    /\ StartFields
    /\ pc' = "connect"
    /\ UNCHANGED <<flags, eventHandlers, eventChan, parentCancelled, loop, hist>>

\* lr.Scan() returned false: end of stream (lr.Err() is nil) or a read
\* error; a read under a cancelled context fails with the context's error.
ScanEnd ==
    /\ pc = "scan"
    /\ \/ /\ IdleDone
          /\ err' = "read_canceled"
       \/ /\ ~IdleDone
          /\ err' \in {"nil", "read_error"}
    /\ pc' = "check"
    /\ UNCHANGED <<flags, eventHandlers, eventChan, parentCancelled, idle, line,
                   cur, hidx, r, scanned, hist>>
    /\ Returns

\* The part of the loop body after the internal handler returned nil:
\* where the goroutine goes for event e.
RoutePc(e, internallyHandled) ==
    IF ~internallyHandled \/ YieldInternalEvents
    THEN IF Len(eventHandlers[e.type]) > 0
         THEN "external"
         ELSE IF ~DropUnhandledEvents THEN "send" ELSE "scan"
    ELSE "scan"

\* DispatchPc with external dispatch placed before the internal handler.
DispatchPcExternalFirst(e) ==
    IF e.type = NoType THEN "crashed"
    ELSE RoutePc(e, e.type \in internalMessageHandlers)

\* Position after the lookup in internalMessageHandlers for event e.
\* The type assertion on e["type"] panics when the field is not a string;
\* handleIdle returns nil at once; handleOOBInclude starts with a request.
DispatchPc(e) ==
    IF e.type = NoType THEN "crashed"
    ELSE IF e.type = "oob_include" THEN "fetch"
    ELSE RoutePc(e, e.type \in internalMessageHandlers)

\* Loop-local state when the goroutine moves to position p with event e.
Enter(p, e) ==
    /\ pc' = p
    /\ cur' = IF p = "scan" THEN NoEvent ELSE e
    /\ hidx' = IF p = "external" THEN 1 ELSE 0

\* Parse with a parse failure returned to the caller instead of skipped.
ParseFatal ==
    /\ pc = "parse"
    /\ line' = "none"
    /\ IF line = BadLine
       THEN /\ pc' = "check"
            /\ err' = "parse_error"
            /\ UNCHANGED <<cur, hidx, timers, owed>>
       ELSE LET e == LiveEvent(line) IN
            /\ timers' = timers \cup {idleContextTimeout}
            /\ owed' = owed - 1
            /\ Enter(DispatchPc(e), e)
            /\ UNCHANGED err
    /\ UNCHANGED <<flags, eventHandlers, eventChan, parentCancelled,
                   idleContext, idleContextTimeout, idleCancelled, r,
                   scanned, errReturned, reply, lateFired,
                   failed>>
    /\ Returns

\* json.Unmarshal of the line into e: a line that does not parse is logged
\* and skipped; otherwise the idle timer is reset and the event enters the
\* dispatch part of the loop body.
Parse ==
    /\ pc = "parse"
    /\ line' = "none"
    /\ IF line = BadLine
       THEN /\ pc' = "scan"
            /\ UNCHANGED <<cur, hidx, timers, owed>>
       ELSE LET e == LiveEvent(line) IN
            /\ timers' = timers \cup {idleContextTimeout}
            /\ owed' = owed - 1
            /\ Enter(DispatchPc(e), e)
    /\ UNCHANGED <<flags, eventHandlers, eventChan, parentCancelled,
                   idleContext, idleContextTimeout, idleCancelled, active,
                   r, err, scanned, errReturned, reply, lateFired,
                   failed>>

\* Responses of the backlog request: lists of at most MaxBacklog events, of
\* a type without and of a type with an internal handler.
BacklogTypes(n) == [1..n -> {"buffer_msg", "idle"}]
BacklogResponses == UNION {BacklogTypes(n) : n \in 0..MaxBacklog}

\* handleOOBInclude up to the loop: request under idleContext, then the
\* response body decoded into a slice of events.
Fetch ==
    /\ pc = "fetch"
    /\ \/ /\ IdleDone
          /\ pc' = "check" /\ err' = "fetch_canceled"
          /\ failed' = TRUE
          /\ UNCHANGED r
       \/ /\ ~IdleDone
          /\ \/ /\ pc' = "check" /\ err' \in {"fetch_failed", "decode_error"}
                /\ failed' = TRUE
                /\ UNCHANGED r
             \/ \E ts \in BacklogResponses :
                   /\ r' = [j \in 1..Len(ts) |->
                                IF oobHandler = "decode"
                                THEN BacklogEvent(ts[j])
                                ELSE InjectedEvent(ts[j])]
                   /\ pc' = "push"
                   /\ UNCHANGED <<err, failed>>
    /\ UNCHANGED <<flags, eventHandlers, eventChan, parentCancelled, idle, line,
                   cur, hidx, scanned, owed, errReturned, reply, lateFired>>
    /\ Returns

\* One iteration of the loop of the handleOOBInclude that decodes: the flag
\* is set and the event is sent on eventChan (the send waits while the
\* channel is full).
Push ==
    /\ pc = "push"
    /\ oobHandler = "decode"
    /\ r # <<>>
    /\ Len(eventChan) < EventChanCap
    /\ eventChan' = Append(eventChan, Head(r))
    /\ r' = Tail(r)
    /\ UNCHANGED <<flags, eventHandlers, parentCancelled, ctxs, pc, line, cur,
                   hidx, err, scanned, hist>>

\* handleOOBInclude returns nil after the loop; the loop body of
\* listenAndParseEvents goes on with the oob_include event itself.
PushDone ==
    /\ pc = "push"
    /\ r = <<>>
    /\ Enter(RoutePc(cur, TRUE), cur)
    /\ UNCHANGED <<flags, eventHandlers, eventChan, parentCancelled, ctxs, line,
                   r, err, scanned, hist>>

\* handleEvent(line, true) called from the loop of handleOOBInclude, up to
\* its first suspension point: the line is decoded and stamped, the idle
\* timer is reset, the internal handler (handleIdle) has returned, and the
\* event goes to the handlers of its type or, without one, to the queue:
\* with drop-unhandled-events the offer enqueues if there is room and
\* discards otherwise, without it the send waits.
HandleEvent ==
    /\ pc = "push"
    /\ oobHandler # "decode"
    /\ r # <<>>
    /\ timers' = timers \cup {idleContextTimeout}
    /\ LET e == Head(r) IN
       IF e.type \in internalMessageHandlers /\ ~YieldInternalEvents
       THEN r' = Tail(r) /\ UNCHANGED <<pc, hidx, eventChan>>
       ELSE IF Len(eventHandlers[e.type]) > 0
       THEN pc' = "hexternal" /\ hidx' = 1 /\ UNCHANGED <<r, eventChan>>
       ELSE IF DropUnhandledEvents
       THEN /\ eventChan' = IF Len(eventChan) < EventChanCap
                            THEN Append(eventChan, e) ELSE eventChan
            /\ r' = Tail(r)
            /\ UNCHANGED <<pc, hidx>>
       ELSE pc' = "hsend" /\ UNCHANGED <<r, hidx, eventChan>>
    /\ UNCHANGED <<flags, eventHandlers, parentCancelled, idleContext,
                   idleContextTimeout, idleCancelled, active, line, cur, err,
                   scanned, hist>>

\* handleEvent calls handler number hidx of the type with the backlog
\* event.  The first error ends handleEvent, which returns it to the loop
\* of handleOOBInclude; after the last handler that loop goes on.
HandleEventExternal(ok) ==
    /\ pc = "hexternal"
    /\ IF ok
       THEN IF hidx < Len(eventHandlers[Head(r).type])
            THEN hidx' = hidx + 1 /\ UNCHANGED <<pc, r>>
            ELSE pc' = "push" /\ hidx' = 0 /\ r' = Tail(r)
       ELSE pc' = "hreturn" /\ UNCHANGED <<hidx, r>>
    /\ failed' = (failed \/ ~ok)
    /\ UNCHANGED <<flags, eventHandlers, eventChan, parentCancelled, ctxs, line,
                   cur, err, scanned, owed, errReturned, reply, lateFired>>

\* The loop of handleOOBInclude has the error of handleEvent in hand: one
\* definition returns it (and listenAndParseEvents returns it in its turn),
\* the other calls handleEvent as a statement and goes on with the next
\* line of the response.
HandleEventReturn ==
    /\ pc = "hreturn"
    /\ IF oobHandler = "handleEvent"
       THEN /\ pc' = "check"
            /\ err' = "handler_error"
            /\ UNCHANGED <<hidx, r>>
       ELSE /\ pc' = "push" /\ hidx' = 0 /\ r' = Tail(r)
            /\ UNCHANGED err
    /\ UNCHANGED <<flags, eventHandlers, eventChan, parentCancelled, idle, line,
                   cur, scanned, hist>>
    /\ Returns

\* The send of handleEvent on eventChan with drop-unhandled-events off.
HandleEventSend ==
    /\ pc = "hsend"
    /\ Len(eventChan) < EventChanCap
    /\ eventChan' = Append(eventChan, Head(r))
    /\ r' = Tail(r)
    /\ pc' = "push"
    /\ UNCHANGED <<flags, eventHandlers, parentCancelled, ctxs, line, cur,
                   hidx, err, scanned, hist>>

\* One iteration of the loop over the registered handlers of the type:
\* handler number hidx is called with the event and returns nil or an error.
External(ok) ==
    /\ pc = "external"
    /\ IF ok
       THEN /\ IF hidx < Len(eventHandlers[cur.type])
               THEN hidx' = hidx + 1 /\ UNCHANGED <<pc, cur>>
               ELSE Enter("scan", cur)
            /\ UNCHANGED err
       ELSE /\ pc' = "check"
            /\ err' = "handler_error"
            /\ UNCHANGED <<cur, hidx>>
    /\ failed' = (failed \/ ~ok)
    /\ UNCHANGED <<flags, eventHandlers, eventChan, parentCancelled, idle, line,
                   r, scanned, owed, errReturned, reply, lateFired>>
    /\ Returns

\* Send that gives up on a full channel instead of waiting.
SendOrDrop ==
    /\ pc = "send"
    /\ eventChan' = IF Len(eventChan) < EventChanCap
                    THEN Append(eventChan, cur) ELSE eventChan
    /\ Enter("scan", cur)
    /\ UNCHANGED <<flags, eventHandlers, parentCancelled, ctxs, line, r, err,
                   scanned, hist>>

\* Send inside a select that also waits for the end of idleContext.
SendOrCancel ==
    /\ pc = "send"
    /\ \/ /\ Len(eventChan) < EventChanCap
          /\ eventChan' = Append(eventChan, cur)
          /\ Enter("scan", cur)
          /\ UNCHANGED err
       \/ /\ IdleDone
          /\ pc' = "check"
          /\ err' = "send_canceled"
          /\ UNCHANGED <<eventChan, cur, hidx>>
    /\ UNCHANGED <<flags, eventHandlers, parentCancelled, idle, line, r,
                   scanned, hist>>
    /\ Returns

\* i.eventChan <- e in listenAndParseEvents.
Send ==
    /\ pc = "send"
    /\ Len(eventChan) < EventChanCap
    /\ eventChan' = Append(eventChan, cur)
    /\ Enter("scan", cur)
    /\ UNCHANGED <<flags, eventHandlers, parentCancelled, ctxs, line, r, err,
                   scanned, hist>>

\* ------------------------------------------------------------- supervisor
\* Check with the test of the parent context inverted.
CheckInverted ==
    /\ pc = "check"
    /\ pc' = IF parentCancelled /\ AutoReconnect THEN "restart" ELSE "senderr"
    /\ UNCHANGED <<flags, eventHandlers, eventChan, parentCancelled, ctxs, loop,
                   hist>>

\* Check with "or" in place of "and".
CheckOr ==
    /\ pc = "check"
    /\ pc' = IF ~parentCancelled \/ AutoReconnect THEN "restart" ELSE "senderr"
    /\ UNCHANGED <<flags, eventHandlers, eventChan, parentCancelled, ctxs, loop,
                   hist>>

\* Check that returns without a send when the attempt returned nil.
CheckNilQuiet ==
    /\ pc = "check"
    /\ pc' = IF ~parentCancelled /\ AutoReconnect THEN "restart"
             ELSE IF err = "nil" THEN "done" ELSE "senderr"
    /\ UNCHANGED <<flags, eventHandlers, eventChan, parentCancelled, ctxs, loop,
                   hist>>

\* The condition of the if statement after listenAndParseEvents returned.
Check ==
    /\ pc = "check"
    /\ pc' = IF ~parentCancelled /\ AutoReconnect THEN "restart" ELSE "senderr"
    /\ UNCHANGED <<flags, eventHandlers, eventChan, parentCancelled, ctxs, loop,
                   hist>>

\* i.Start() in the then branch; the new goroutine starts with fresh locals.
Restart ==
    /\ pc = "restart"
    /\ idleContext < MaxAttempts
    /\ StartFields
    /\ pc' = "connect"
    /\ err' = "none"
    /\ cur' = NoEvent
    /\ hidx' = 0
    /\ r' = <<>>
    /\ owed' = 0
    /\ UNCHANGED <<flags, eventHandlers, eventChan, parentCancelled, line,
                   scanned, errReturned, reply, lateFired>>
    /\ failed' = FALSE

\* i.errChan <- err in the else branch meets a call of Err(): errChan is
\* unbuffered, the send completes when the application receives.
Err ==
    /\ pc = "senderr"
    /\ errReturned' = Append(errReturned, err)
    /\ pc' = "done"
    /\ UNCHANGED <<flags, eventHandlers, eventChan, parentCancelled, ctxs, loop,
                   owed, reply, lateFired,
                   failed>>

\* ---------------------------------------------------------- specification
Goroutine ==
    \/ Connect
    \/ \E kind \in LineKinds : Scan(kind)
    \/ ScanEnd
    \/ Parse
    \/ Fetch
    \/ Push
    \/ PushDone
    \/ \E ok \in BOOLEAN : External(ok)
    \/ Send
    \/ Check
    \/ Restart

Next ==
    \/ \E a, y, d \in BOOLEAN : Configure(a, y, d)
    \/ \E t \in EventTypes : RegisterMessageHandler(t)
    \/ \E e \in ReplyEvents : \E sayFails \in BOOLEAN : ReplyCall(e, sayFails)
    \/ ReplyReturn
    \/ Start
    \/ Receive
    \/ CancelParent
    \/ \E k \in 1..MaxAttempts : TimerFire(k)
    \/ Goroutine
    \/ Err

Spec == Init /\ [][Next]_vars

\* The goroutine of a build whose handleOOBInclude calls handleEvent.
GoroutineHandleEvent ==
    \/ Connect
    \/ \E kind \in LineKinds : Scan(kind)
    \/ ScanEnd
    \/ Parse
    \/ Fetch
    \/ HandleEvent
    \/ \E ok \in BOOLEAN : HandleEventExternal(ok)
    \/ HandleEventReturn
    \/ HandleEventSend
    \/ PushDone
    \/ \E ok \in BOOLEAN : External(ok)
    \/ Send
    \/ Check
    \/ Restart

NextHandleEvent ==
    \/ \E a, y, d \in BOOLEAN : Configure(a, y, d)
    \/ \E t \in EventTypes : RegisterMessageHandler(t)
    \/ \E e \in ReplyEvents : \E sayFails \in BOOLEAN : ReplyCall(e, sayFails)
    \/ ReplyReturn
    \/ Start
    \/ Receive
    \/ CancelParent
    \/ \E k \in 1..MaxAttempts : TimerFire(k)
    \/ GoroutineHandleEvent
    \/ Err

SpecHandleEvent == InitHandleEvent /\ [][NextHandleEvent]_vars

\* The stream goroutine keeps running while it has a step to take: requests
\* and reads return (with a result or an error), handlers return, a send
\* completes when the channel has room.  Nothing obliges the application to
\* receive from Events(), to call Err() or to cancel, nor a timer to fire.
FairSpec == Spec /\ WF_vars(Goroutine)

TypeOK ==
    /\ Len(eventChan) <= EventChanCap
    /\ pc \in {"init", "connect", "scan", "parse", "fetch", "push", "external",
               "hexternal", "hreturn", "hsend", "send", "check", "restart",
               "senderr", "done", "crashed"}

\* ------------------------------------------------------------- properties
\* Events sitting in the Output Queue.
Queued == {eventChan[n] : n \in 1..Len(eventChan)}

\* The goroutine is about to call an external handler with cur.
AtHandler == pc \in {"external", "hexternal"}
HandlerEvent == IF pc = "external" THEN cur ELSE Head(r)

\* The goroutine is at a send on eventChan and the event it sends.
AtSend ==
    \/ pc \in {"send", "hsend"}
    \/ pc = "push" /\ r # <<>> /\ oobHandler = "decode"
SendEvent == IF pc = "send" THEN cur ELSE Head(r)

\* The goroutine is suspended on a send to the full channel.
Blocked == AtSend /\ Len(eventChan) = EventChanCap

IsInternal(e) == e.type \in internalMessageHandlers
HasHandler(e) == Len(eventHandlers[e.type]) > 0

\* C1: while yield-internal-events is disabled, no event of a type with an
\* internal handler ("idle", "oob_include") is handed to an external handler
\* or placed in the Output Queue, whether it was read from the stream or
\* obtained by a backlog fetch.
C1_InternalEventsHidden ==
    ~YieldInternalEvents =>
        /\ \A e \in Queued : ~IsInternal(e)
        /\ AtHandler => ~IsInternal(HandlerEvent)

\* C2: an event whose type has a registered handler is never sent to the
\* Events() queue, and an event is in the queue only if external dispatch
\* was required for it; backlog events included.
C2_HandledNeverQueued ==
    \A e \in Queued :
        /\ ~HasHandler(e)
        /\ ~IsInternal(e) \/ YieldInternalEvents

\* C3: with drop-unhandled-events enabled and no external handler
\* registered, the dispatch path is never suspended on the Output Queue,
\* for live events and for events of a backlog fetch.
C3_DropNeverSuspends ==
    (DropUnhandledEvents /\ RegisteredCount = 0) =>
        /\ ~Blocked
        /\ Len(eventChan) <= EventChanCap

\* Both reserved fields are readable on e and the backlog flag tells where
\* the event came from.
Stamped(e) ==
    /\ Conn(e) = "bot"
    /\ FromBacklog(e) = IF e.origin = "stream" THEN "false" ELSE "true"

\* C10: every event handed to an external handler or placed in the Output
\* Queue carries the back-reference to the bot and the backlog flag, false
\* for stream events and true for backlog events.
C10_ReservedFields ==
    /\ \A e \in Queued : Stamped(e)
    /\ AtHandler => Stamped(HandlerEvent)

\* The configuration C4 is about.
BlockingConfig == ~DropUnhandledEvents /\ RegisteredCount = 0

\* In every state: the queue is within capacity, and an event read from the
\* stream is in it or about to be sent only if it has no internal handler
\* or internal events are yielded.
C4_Inv ==
    BlockingConfig =>
        /\ Len(eventChan) <= EventChanCap
        /\ pc = "send" => cur # NoEvent
        /\ \A e \in Queued \cup (IF pc = "send" THEN {cur} ELSE {}) :
                e.origin = "stream" => ~IsInternal(e) \/ YieldInternalEvents

\* In every step: a suspended goroutine reads and dispatches nothing until
\* the application receives; a send is left only by enqueuing its event at
\* the tail, and no line is read in between; the queue changes only by an
\* event sent at its tail or by its head going to the application; an
\* event without internal handler that was parsed goes to a send.
C4_Step ==
    BlockingConfig =>
        /\ (Blocked /\ eventChan' = eventChan) =>
                UNCHANGED <<pc, line, cur, hidx, r, err, scanned, owed>>
        /\ (Blocked /\ eventChan' # eventChan) =>
                /\ eventChan' = Tail(eventChan)
                /\ UNCHANGED <<pc, cur, r>>
        /\ (AtSend /\ <<pc, cur, r>>' # <<pc, cur, r>>) =>
                eventChan' = Append(eventChan, SendEvent)
        /\ AtSend => UNCHANGED <<scanned, line>>
        /\ (pc = "parse" /\ line' # line /\ line = "buffer_msg") =>
                pc' = "send" /\ cur' = LiveEvent("buffer_msg")
        /\ (eventChan' # eventChan) =>
                \/ AtSend /\ eventChan' = Append(eventChan, SendEvent)
                \/ eventChan # <<>> /\ eventChan' = Tail(eventChan)

ParseStep == pc = "parse" /\ line' # line

C5_Step ==
    /\ (ParseStep /\ line = BadLine) =>
            /\ pc' = "scan"
            /\ UNCHANGED <<eventChan, cur, hidx, r, err, owed, timers>>
    /\ (ParseStep /\ line # BadLine) =>
            /\ owed' = owed - 1
            /\ pc' = DispatchPc(LiveEvent(line))
    /\ (~ParseStep /\ owed' < owed) => owed' = 0 /\ pc = "restart"

\* C5: each parseable line of a stream attempt is passed to dispatch exactly
\* once (whenever the goroutine is not between scanning and parsing a line,
\* as many events were dispatched as parseable lines were scanned); a line
\* that does not parse is skipped without calling a handler, enqueuing
\* anything or ending the attempt.
C5_ValidLinesDispatchedOnce ==
    /\ [](owed = IF pc = "parse" /\ line # BadLine THEN 1 ELSE 0)
    /\ [][C5_Step]_vars

\* One attempt has skipped a bad line and dispatched a parseable one, which
\* is now in the queue.
C5_Witness ==
    /\ idleContext = 1
    /\ pc = "scan"
    /\ scanned = 2
    /\ \E e \in Queued : e.origin = "stream"

\* The goroutine evaluates the reconnect condition / calls Start again.
CheckStep == pc = "check" /\ pc' # pc
RestartStep == pc = "restart" /\ pc' # pc

C6_Step ==
    /\ (CheckStep /\ AutoReconnect /\ ~parentCancelled) => pc' = "restart"
    /\ RestartStep =>
            /\ pc' = "connect"
            /\ idleContext' = idleContext + 1
            /\ ~idleCancelled'
            /\ idleContextTimeout' = idleContext'
            /\ idleContextTimeout' \in timers'
            /\ errReturned' = errReturned

\* C6: when an attempt has ended while auto-reconnect is enabled and the
\* parent context is live, the supervisor starts a fresh attempt (new
\* context, new timer, new request) and sends nothing on errChan: Err()
\* returns only if the parent is cancelled or auto-reconnect is off.
C6_ReconnectNoError ==
    /\ []((pc \in {"senderr", "done"} \/ errReturned # <<>>) =>
                (parentCancelled \/ ~AutoReconnect))
    /\ [][C6_Step]_vars

\* A second attempt is reading the stream and Err() has not returned.
C6_Witness ==
    /\ AutoReconnect /\ ~parentCancelled
    /\ idleContext = 2
    /\ pc = "scan"
    /\ errReturned = <<>>

C7_Inv ==
    /\ Len(errReturned) <= 1
    /\ ~AutoReconnect =>
            /\ idleContext <= 1
            /\ pc # "restart"
            /\ pc = "done" <=> errReturned # <<>>
            /\ pc = "done" => errReturned = <<err>>

C7_Step ==
    /\ (CheckStep /\ ~AutoReconnect) => pc' = "senderr"
    /\ (pc = "senderr" /\ pc' # pc) =>
            /\ pc' = "done"
            /\ errReturned' = Append(errReturned, err)
    /\ pc = "done" =>
            /\ pc' = "done"
            /\ UNCHANGED <<idleContext, errReturned, err>>

\* C7: with auto-reconnect disabled, the end of the attempt takes the
\* supervisor to the send on errChan; the value the attempt returned comes
\* out of Err() exactly once, no other attempt is started, and once the
\* goroutine is done nothing further is returned by Err().
C7_TerminalErrorOnce == []C7_Inv /\ [][C7_Step]_vars

\* The read error of the only attempt has been returned by Err().
C7_Witness ==
    /\ ~AutoReconnect
    /\ pc = "done"
    /\ errReturned = <<"read_error">>
    /\ idleContext = 1

\* C8: once the parent context is cancelled, the supervisor starts no new
\* attempt, wherever in its check-then-restart sequence the cancellation
\* falls.
C8_NoAttemptAfterCancel ==
    [][(parentCancelled /\ pc # "init") => idleContext' = idleContext]_vars

\* Attempt k is running (listenAndParseEvents has not returned).
Running(k) ==
    /\ idleContext = k
    /\ pc \in {"connect", "scan", "parse", "fetch", "push", "hexternal",
               "hreturn", "hsend", "external", "send"}

\* The watchdog of attempt k has fired while the attempt is running.
WatchdogFired(k) == Running(k) /\ idleCancelled

\* Errors that come from a cancelled context.
CancelErrors == {"request_canceled", "read_canceled", "fetch_canceled"}

\* listenAndParseEvents of attempt k has just returned an error of set E.
EndedWith(k, E) == idleContext = k /\ pc = "check" /\ err \in E

C9_Step ==
    /\ (idleContextTimeout \in timers /\ idleContextTimeout \notin timers') =>
            IdleDone'
    /\ \A k \in 1..MaxAttempts :
            (WatchdogFired(k) /\ pc' = "check") =>
                err' \in CancelErrors \cup {"handler_error"}
    /\ CheckStep =>
            pc' = IF AutoReconnect /\ ~parentCancelled
                  THEN "restart" ELSE "senderr"

C11_ReplyContract ==
    reply # NoReply =>
        IF reply.on.type # "buffer_msg"
        THEN /\ reply.out = "cannot_reply"
             /\ reply.text = reply.on.type
             /\ reply.says = <<>>
        ELSE reply.says = <<[cid |-> reply.on.cid, to |-> reply.on.chan]>>

\* C12: a record that parses but whose "type" is absent or not text is
\* surfaced as an error of the attempt: nothing is routed or enqueued for
\* it and listenAndParseEvents returns an error to the supervisor; the
\* goroutine does not panic.
C12_NoTypeIsError ==
    [][(ParseStep /\ line = NoType) =>
            /\ pc' = "check"
            /\ err' \notin {"none", "nil"}
            /\ eventChan' = eventChan]_vars

\* The event of the line held by the scanner has to go to external
\* dispatch and no handler is registered for it.
Unhandled(t) ==
    /\ t \in {"buffer_msg", "idle"}
    /\ Len(eventHandlers[t]) = 0
    /\ t \notin internalMessageHandlers \/ YieldInternalEvents

\* C13: with drop-unhandled-events enabled, an event that needs external
\* dispatch and has no handler is enqueued when the queue has room and
\* discarded only when the queue is full.
C13_DropOnlyWhenFull ==
    [][(ParseStep /\ DropUnhandledEvents /\ Unhandled(line)) =>
            eventChan' = IF Len(eventChan) < EventChanCap
                         THEN Append(eventChan, LiveEvent(line))
                         ELSE eventChan]_vars

\* Errors an internal or external handler returns.
HandlerErrors ==
    {"handler_error", "fetch_canceled", "fetch_failed", "decode_error"}

\* C14: an error returned by a handler is fatal to the attempt: once an
\* internal or external handler has failed, for an event of the stream or
\* for one re-injected from a backlog response, no further handler is
\* called and no further event dispatched: the error is on its way out of
\* handleEvent, or listenAndParseEvents has returned it.
C14_HandlerFailureFatal ==
    failed =>
        \/ pc = "hreturn"
        \/ /\ pc \in {"check", "restart", "senderr", "done"}
           /\ err \in HandlerErrors

\* The event at the head of the backlog response has to go to external
\* dispatch.
Dispatchable(e) == ~IsInternal(e) \/ YieldInternalEvents

C16_Step ==
    /\ (pc = "fetch" /\ pc' # pc) =>
            \/ pc' = "push" /\ err' = err
            \/ pc' = "check"
                    /\ err' \in {"fetch_canceled", "fetch_failed", "decode_error"}
    /\ (pc \in {"push", "hexternal", "hreturn", "hsend"}
            /\ r # <<>> /\ r' = Tail(r)) =>
            LET e == Head(r) IN
            /\ eventChan' # eventChan =>
                    /\ eventChan' = Append(eventChan, e)
                    /\ ~HasHandler(e)
                    /\ Dispatchable(e)
            /\ (HasHandler(e) /\ Dispatchable(e)) =>
                    pc \in {"hexternal", "hreturn"}

\* C16: an event of a backlog response goes the way of a live event: it
\* is enqueued only if it has to be dispatched externally and no handler is
\* registered for its type, the handlers of its type are called if there
\* are any, and with drop-unhandled-events the goroutine never waits on the
\* queue for it; a fetch that fails ends the attempt with its error.
C16_BacklogReinjected ==
    /\ [](DropUnhandledEvents => ~(Blocked /\ pc # "send"))
    /\ [][C16_Step]_vars

C15_Inv ==
    /\ pc \in {"scan", "parse"} => cur = NoEvent /\ hidx = 0 /\ r = <<>>
    /\ pc = "external" => hidx \in 1..Len(eventHandlers[cur.type])
    /\ \A t \in EventTypes : \A j \in 1..Len(eventHandlers[t]) :
            eventHandlers[t][j] = j

C15_Step ==
    /\ scanned' # scanned => pc = "scan" /\ scanned' = scanned + 1
    /\ (pc = "external" /\ pc' = "external") =>
            cur' = cur /\ hidx' \in {hidx, hidx + 1}
    /\ (pc # "external" /\ pc' = "external") => hidx' = 1
    /\ (pc = "external" /\ pc' = "scan") =>
            hidx = Len(eventHandlers[cur.type])
    /\ (pc' # pc /\ pc' \in {"external", "send"}
            /\ cur'.type = "oob_include") =>
            pc = "push" /\ r = <<>> /\ cur' = cur

InLoop ==
    pc \in {"connect", "scan", "parse", "fetch", "push", "hexternal",
            "hreturn", "hsend", "external", "send"}

C17_Inv ==
    /\ Cardinality(active) <= 1
    /\ InLoop => active = {idleContext}
    /\ pc \in {"init", "check", "restart", "senderr", "done"} => active = {}

C17_Step ==
    idleContext' # idleContext =>
        /\ active = {}
        /\ active' = {idleContext'}
        /\ idleContext' = idleContext + 1

\* C17: after the call of Start at most one attempt is running in every
\* reachable state, and a new attempt starts only when the loop of the
\* previous one has returned, over any number of reconnections.
C17_OneAttemptActive == []C17_Inv /\ [][C17_Step]_vars

\* The second attempt is reading and is the only one running.
C17_Witness ==
    /\ idleContext = 2
    /\ active = {2}
    /\ pc = "parse"

C18_Inv ==
    /\ idleContextTimeout = idleContext
    /\ timers \subseteq 1..idleContext

C18_Step ==
    /\ \A k \in 1..MaxAttempts :
            (k \in timers /\ k \notin timers' /\ k # idleContext) =>
                idleCancelled' = idleCancelled
    /\ (idleCancelled' /\ ~idleCancelled) =>
            /\ idleContext' = idleContext
            /\ idleContext \in timers /\ idleContext \notin timers'
    /\ (timers' \ timers) \subseteq {idleContext'}

\* C18: the timer armed by the Start of attempt k cancels the context of
\* attempt k only: when it fires during a later attempt the context of
\* that attempt stays live; the context of an attempt is cancelled by its
\* own timer only; the field holds the timer of the current attempt, so a
\* Reset arms that timer and no other.
C18_TimerCancelsOwnAttempt == []C18_Inv /\ [][C18_Step]_vars

\* The timer of the first attempt fired during the second, which goes on
\* reading under a live context with its own timer armed.
C18_Witness ==
    /\ lateFired
    /\ idleContext = 2
    /\ ~idleCancelled
    /\ timers = {2}
    /\ pc = "scan"
    /\ scanned >= 1

C19_Step ==
    ~DropUnhandledEvents =>
        /\ (Blocked /\ eventChan' = eventChan) =>
                UNCHANGED <<pc, cur, r, err, idleContext, errReturned>>
        /\ (Blocked /\ ~Blocked') => eventChan' = Tail(eventChan)
        /\ (AtSend /\ pc' \in {"check", "restart", "senderr", "done"}) =>
                pc' = pc

\* C19: with drop-unhandled-events disabled, a goroutine suspended on a
\* send to the full queue stays there whatever timer fires or context is
\* cancelled; it leaves the send only after the application has received
\* an event, and the attempt ends (check, restart, send on errChan) only
\* from a position after the send.
C19_HeldUntilReceive == [][C19_Step]_vars

\* The goroutine is suspended on the send, the watchdog has fired and the
\* parent context is cancelled.
C19_Witness ==
    /\ ~DropUnhandledEvents
    /\ Blocked
    /\ idleCancelled /\ parentCancelled

C20_Step ==
    /\ (pc # "check" /\ pc' = "check" /\ err' = "nil") =>
            pc = "scan" /\ ~IdleDone
    /\ (CheckStep /\ err = "nil") =>
            pc' = IF AutoReconnect /\ ~parentCancelled
                  THEN "restart" ELSE "senderr"
    /\ (pc = "senderr" /\ pc' # pc /\ err = "nil") =>
            pc' = "done" /\ errReturned' = Append(errReturned, "nil")

====
